---- MODULE Spec2Model ----
(***************************************************************************)
(* Appointment scheduling core of the clinic booking backend.              *)
(*                                                                         *)
(* The store is the Appointment collection.  Every service function is a   *)
(* request handled by one of the concurrently running handlers; the only   *)
(* suspension points are the store calls, so createAppointmentService is   *)
(* three steps (validate and issue the query, the findOne query and its    *)
(* continuation, the insert) and every other service is one step (its      *)
(* synchronous validation followed by one atomic findByIdAndUpdate).       *)
(***************************************************************************)
EXTENDS Integers, Sequences, FiniteSets, TLC

\* ---------------------------------------------------------------- bounds
MaxTime == 2
MaxAppts == 2
NumProcs == 2

\* ------------------------------------------------------------- constants
Instants == 0..MaxTime
Patients == {"P1", "P2"}
Doctors == {"D1", "D2"}
Statuses == {"scheduled", "completed", "cancelled"}

\* An absent (undefined) optional string field of an input or a document.
UNDEF == "undefined"
\* getTime() of an Invalid Date.
NaN == -1

\* A Date | string as a caller hands it over: an ISO-8601 text of instant t,
\* a text that is no date, or an absent field.
IsoTime(t) == [kind |-> "iso", t |-> t]
Garbage == [kind |-> "garbage", t |-> 0]
UndefTime == [kind |-> "undefined", t |-> 0]
RawTimes == {IsoTime(t) : t \in Instants} \cup {Garbage}

\* new Date(x).getTime(): the instant of a date text, NaN for any other text.
ParseDate(raw) == IF raw.kind = "iso" THEN raw.t ELSE NaN

IsNaN(t) == t = NaN

\* The texts a reason or notes takes: with and without surrounding blanks.
Texts == {"flu", " flu ", "cough", "fasting"}

\* String.prototype.trim on those texts (the `trim` setter of the schema's
\* reason and notes paths); undefined stays undefined.
Trim(text) == IF text = " flu " THEN "flu" ELSE text

\* ------------------------------------------------------------------ state
\* appts holds the documents with the fields the services write.  The
\* schema declares startTime with the key `tyoe` in place of `type`; the model
\* takes the path as the Date path the services and the index treat it as.
VARIABLES
  appts,   \* the Appointment collection, in insertion order; _id = position
  req,     \* per handler: the request it is serving and how far it got
  users    \* the User collection, in insertion order; _id = position

vars == <<appts, req, users>>

NoDoc ==
  [id |-> 0, patientId |-> "none", doctorId |-> "none", startTime |-> 0,
   endTime |-> 0, reason |-> UNDEF, notes |-> UNDEF, status |-> "none"]

NoInput ==
  [id |-> 0, patientId |-> "none", doctorId |-> "none", startTime |-> UndefTime,
   endTime |-> UndefTime, reason |-> UNDEF, notes |-> UNDEF, status |-> UNDEF]

Idle ==
  [op |-> "none", pc |-> "idle", input |-> NoInput, start |-> 0, end |-> 0,
   result |-> "none", doc |-> NoDoc, list |-> <<>>]

Procs == DOMAIN req

Ids == 1..Len(appts)

\* ------------------------------------------------------- createAppointment
\* Mutant: the order check written with < lets endTime = startTime through.
CreateInvalidLax(start, end) == IsNaN(start) \/ IsNaN(end) \/ end < start

\* Mutant: the order of the two instants is not looked at.
CreateInvalidOnlyNaN(start, end) == IsNaN(start) \/ IsNaN(end)

\* The two throws that precede the first store call.
CreateInvalid(start, end) == IsNaN(start) \/ IsNaN(end) \/ end <= start

\* Mutant: the query looks only for appointments that start inside the
\* requested interval.
ConflictFilterStartInside(a, doctorId, start, end) ==
  /\ a.doctorId = doctorId
  /\ a.startTime >= start
  /\ a.startTime < end
  /\ a.status # "cancelled"

\* Mutant: the query without its status clause.
ConflictFilterAnyStatus(a, doctorId, start, end) ==
  /\ a.doctorId = doctorId
  /\ a.startTime < end
  /\ a.endTime > start

\* Mutant: the query with closed bounds ($lte, $gte).
ConflictFilterClosed(a, doctorId, start, end) ==
  /\ a.doctorId = doctorId
  /\ a.startTime <= end
  /\ a.endTime >= start
  /\ a.status # "cancelled"

\* Mutant: the query looks for scheduled appointments only.
ConflictFilterOnlyScheduled(a, doctorId, start, end) ==
  /\ a.doctorId = doctorId
  /\ a.startTime < end
  /\ a.endTime > start
  /\ a.status = "scheduled"

\* Mutant: the query without its doctorId clause.
ConflictFilterAnyDoctor(a, doctorId, start, end) ==
  /\ a.startTime < end
  /\ a.endTime > start
  /\ a.status # "cancelled"

\* The filter of the findOne overlap query.
ConflictFilter(a, doctorId, start, end) ==
  /\ a.doctorId = doctorId
  /\ a.startTime < end
  /\ a.endTime > start
  /\ a.status # "cancelled"

FindConflict(store, doctorId, start, end) ==
  {i \in 1..Len(store) : ConflictFilter(store[i], doctorId, start, end)}

\* Mutant: the doctor's id copied into patientId.
NewAppointmentWrongPatient(id, input, start, end) ==
  [id |-> id, patientId |-> input.doctorId, doctorId |-> input.doctorId,
   startTime |-> start, endTime |-> end, reason |-> Trim(input.reason),
   notes |-> Trim(input.notes), status |-> "scheduled"]

\* The document Appointment.create builds from the service's object literal.
NewAppointment(id, input, start, end) ==
  [id |-> id, patientId |-> input.patientId, doctorId |-> input.doctorId,
   startTime |-> start, endTime |-> end, reason |-> Trim(input.reason),
   notes |-> Trim(input.notes), status |-> "scheduled"]

InFlight == {p \in Procs : req[p].pc \in {"query", "insert"}}

\* createAppointmentController hands the service the six fields it names; any
\* other key of the request body (a client-supplied status) is dropped.
ServiceInput(body) ==
  [NoInput EXCEPT !.patientId = body.patientId, !.doctorId = body.doctorId,
                  !.startTime = body.startTime, !.endTime = body.endTime,
                  !.reason = body.reason, !.notes = body.notes]

CreateStart(p, body) ==
  /\ req[p].pc = "idle"
  /\ Len(appts) + Cardinality(InFlight) < MaxAppts
  /\ LET input == ServiceInput(body)
         start == ParseDate(input.startTime)
         end == ParseDate(input.endTime)
     IN  req' = [req EXCEPT ![p] =
           IF CreateInvalid(start, end)
           THEN [Idle EXCEPT !.op = "create", !.pc = "done",
                             !.result = "ValidationError"]
           ELSE [Idle EXCEPT !.op = "create", !.pc = "query", !.input = input,
                             !.start = start, !.end = end]]
  /\ UNCHANGED appts
  /\ UNCHANGED users

\* Mutant: a create that finds the slot taken asks again until it is free.
CreateQueryRetry(p) ==
  /\ req[p].pc = "query"
  /\ LET existing == FindConflict(appts, req[p].input.doctorId,
                                  req[p].start, req[p].end)
     IN  req' = [req EXCEPT ![p] =
           IF existing # {}
           THEN @
           ELSE [@ EXCEPT !.pc = "insert"]]
  /\ UNCHANGED appts
  /\ UNCHANGED users

CreateQuery(p) ==
  /\ req[p].pc = "query"
  /\ LET existing == FindConflict(appts, req[p].input.doctorId,
                                  req[p].start, req[p].end)
     IN  req' = [req EXCEPT ![p] =
           IF existing # {}
           THEN [Idle EXCEPT !.op = "create", !.pc = "done",
                             !.result = "ConflictError"]
           ELSE [@ EXCEPT !.pc = "insert"]]
  /\ UNCHANGED appts
  /\ UNCHANGED users

\* Mutant: an insert that runs the conflict query again in one step with the
\* write (a store that refuses the second of two intersecting bookings).
CreateInsertChecked(p) ==
  /\ req[p].pc = "insert"
  /\ LET appointment == NewAppointment(Len(appts) + 1, req[p].input,
                                       req[p].start, req[p].end)
         existing == FindConflict(appts, req[p].input.doctorId,
                                  req[p].start, req[p].end)
     IN  IF existing # {}
         THEN /\ UNCHANGED appts
              /\ req' = [req EXCEPT ![p] =
                   [Idle EXCEPT !.op = "create", !.pc = "done",
                                !.result = "ConflictError"]]
         ELSE /\ appts' = Append(appts, appointment)
              /\ req' = [req EXCEPT ![p] =
                   [Idle EXCEPT !.op = "create", !.pc = "done", !.result = "ok",
                                !.doc = appointment]]
  /\ UNCHANGED users

CreateInsert(p) ==
  /\ req[p].pc = "insert"
  /\ LET appointment == NewAppointment(Len(appts) + 1, req[p].input,
                                       req[p].start, req[p].end)
     IN  /\ appts' = Append(appts, appointment)
         /\ req' = [req EXCEPT ![p] =
              [Idle EXCEPT !.op = "create", !.pc = "done", !.result = "ok",
                           !.doc = appointment]]
  /\ UNCHANGED users

\* ------------------------------------------------------- findByIdAndUpdate
\* Mutant: the status update also unsets the notes.
SetStatusDropsNotes(store, id, status) ==
  [store EXCEPT ![id] = [@ EXCEPT !.status = status, !.notes = UNDEF]]

\* Appointment.findByIdAndUpdate(id, patch, {new: true}): the stored document
\* with the patch's fields set, or null for an unknown id.
SetStatus(store, id, status) ==
  [store EXCEPT ![id] = [@ EXCEPT !.status = status]]

\* Mutant: the patch replaces the document's optional fields, so that a
\* reason or notes the patch does not hold is lost.
ApplyPatchReplaces(a, patch) ==
  [a EXCEPT !.startTime = IF patch.hasStart THEN patch.startTime ELSE @,
            !.endTime = IF patch.hasEnd THEN patch.endTime ELSE @,
            !.reason = Trim(patch.reason),
            !.notes = Trim(patch.notes),
            !.status = IF patch.status # UNDEF THEN patch.status ELSE @]

\* The $set of a patch object: each key the patch holds replaces the stored
\* value, every other field keeps it.
ApplyPatch(a, patch) ==
  [a EXCEPT !.startTime = IF patch.hasStart THEN patch.startTime ELSE @,
            !.endTime = IF patch.hasEnd THEN patch.endTime ELSE @,
            !.reason = IF patch.reason # UNDEF THEN Trim(patch.reason) ELSE @,
            !.notes = IF patch.notes # UNDEF THEN Trim(patch.notes) ELSE @,
            !.status = IF patch.status # UNDEF THEN patch.status ELSE @]

\* Mutant: the update run without validators.
StatusEnumOff(status) == TRUE

\* runValidators: the enum validator of the schema's status path.
StatusEnumOk(status) == status = UNDEF \/ status \in Statuses

\* ------------------------------------------------------- updateAppointment
\* The patch object the service builds; a key is present only when the
\* corresponding key of updates is not undefined.
BuildPatch(updates) ==
  [hasStart |-> updates.startTime.kind # "undefined",
   startTime |-> ParseDate(updates.startTime),
   hasEnd |-> updates.endTime.kind # "undefined",
   endTime |-> ParseDate(updates.endTime),
   reason |-> updates.reason, notes |-> updates.notes,
   status |-> updates.status]

\* Mutant: the test of endTime left out.
UpdateInvalidStartOnly(patch) == patch.hasStart /\ IsNaN(patch.startTime)

\* The two throws of the service: a present time that does not parse.
UpdateInvalid(patch) ==
  \/ patch.hasStart /\ IsNaN(patch.startTime)
  \/ patch.hasEnd /\ IsNaN(patch.endTime)

\* Mutant: the patched time is compared with the stored other endpoint, and
\* an interval that does not end after its start is refused.
UpdateChecksOrder(p, id, updates) ==
  /\ req[p].pc = "idle"
  /\ LET patch == BuildPatch(updates)
     IN  IF UpdateInvalid(patch)
         THEN /\ UNCHANGED appts
              /\ req' = [req EXCEPT ![p] =
                   [Idle EXCEPT !.op = "update", !.pc = "done",
                                !.result = "ValidationError"]]
         ELSE IF ~StatusEnumOk(patch.status)
         THEN /\ UNCHANGED appts
              /\ req' = [req EXCEPT ![p] =
                   [Idle EXCEPT !.op = "update", !.pc = "done",
                                !.result = "InternalError"]]
         ELSE IF id \in Ids
         THEN IF ApplyPatch(appts[id], patch).endTime
                   <= ApplyPatch(appts[id], patch).startTime
              THEN /\ UNCHANGED appts
                   /\ req' = [req EXCEPT ![p] =
                        [Idle EXCEPT !.op = "update", !.pc = "done",
                                     !.result = "ValidationError"]]
              ELSE /\ appts' = [appts EXCEPT ![id] = ApplyPatch(@, patch)]
                   /\ req' = [req EXCEPT ![p] =
                        [Idle EXCEPT !.op = "update", !.pc = "done",
                                     !.result = "ok", !.doc = appts'[id]]]
         ELSE /\ UNCHANGED appts
              /\ req' = [req EXCEPT ![p] =
                   [Idle EXCEPT !.op = "update", !.pc = "done",
                                !.result = "null"]]
  /\ UNCHANGED users

\* Mutant: a transition guard; the status of a completed or cancelled
\* appointment is not written.
UpdateKeepsTerminal(p, id, updates) ==
  /\ req[p].pc = "idle"
  /\ LET patch == BuildPatch(updates)
     IN  IF UpdateInvalid(patch)
         THEN /\ UNCHANGED appts
              /\ req' = [req EXCEPT ![p] =
                   [Idle EXCEPT !.op = "update", !.pc = "done",
                                !.result = "ValidationError"]]
         ELSE IF ~StatusEnumOk(patch.status)
         THEN /\ UNCHANGED appts
              /\ req' = [req EXCEPT ![p] =
                   [Idle EXCEPT !.op = "update", !.pc = "done",
                                !.result = "InternalError"]]
         ELSE IF id \in Ids
         THEN /\ appts' = [appts EXCEPT ![id] =
                   IF @.status \in {"completed", "cancelled"}
                   THEN ApplyPatch(@, [patch EXCEPT !.status = UNDEF])
                   ELSE ApplyPatch(@, patch)]
              /\ req' = [req EXCEPT ![p] =
                   [Idle EXCEPT !.op = "update", !.pc = "done",
                                !.result = "ok", !.doc = appts'[id]]]
         ELSE /\ UNCHANGED appts
              /\ req' = [req EXCEPT ![p] =
                   [Idle EXCEPT !.op = "update", !.pc = "done",
                                !.result = "null"]]
  /\ UNCHANGED users

Update(p, id, updates) ==
  /\ req[p].pc = "idle"
  /\ LET patch == BuildPatch(updates)
     IN  IF UpdateInvalid(patch)
         THEN /\ UNCHANGED appts
              /\ req' = [req EXCEPT ![p] =
                   [Idle EXCEPT !.op = "update", !.pc = "done",
                                !.result = "ValidationError"]]
         ELSE IF ~StatusEnumOk(patch.status)
         THEN /\ UNCHANGED appts
              /\ req' = [req EXCEPT ![p] =
                   [Idle EXCEPT !.op = "update", !.pc = "done",
                                !.result = "InternalError"]]
         ELSE IF id \in Ids
         THEN /\ appts' = [appts EXCEPT ![id] = ApplyPatch(@, patch)]
              /\ req' = [req EXCEPT ![p] =
                   [Idle EXCEPT !.op = "update", !.pc = "done",
                                !.result = "ok", !.doc = appts'[id]]]
         ELSE /\ UNCHANGED appts
              /\ req' = [req EXCEPT ![p] =
                   [Idle EXCEPT !.op = "update", !.pc = "done",
                                !.result = "null"]]
  /\ UNCHANGED users

\* ---------------------------------------------- updateAppointmentController
\* The keys a request body holds (Object.keys of the parsed data).
PatchKeys(body) ==
  {k \in {"startTime", "endTime"} : body[k].kind # "undefined"}
  \cup {k \in {"reason", "notes", "status"} : body[k] # UNDEF}

\* updateAppointmentSchema.safeParse fails: a time z.coerce.date cannot read,
\* a status outside the enum, or the refinement that wants one key at least.
UpdateSchemaRejects(body) ==
  \/ body.startTime.kind = "garbage"
  \/ body.endTime.kind = "garbage"
  \/ body.status \notin Statuses \cup {UNDEF}
  \/ PatchKeys(body) = {}

\* The controller: the body is parsed, and only a body that parses reaches
\* the service.
UpdateController(p, id, body) ==
  IF UpdateSchemaRejects(body)
  THEN /\ req[p].pc = "idle"
       /\ req' = [req EXCEPT ![p] =
            [Idle EXCEPT !.op = "update", !.pc = "done",
                         !.result = "ValidationError"]]
       /\ UNCHANGED <<appts, users>>
  ELSE Update(p, id, body)

\* ------------------------------------------------------- cancel / complete
\* Mutant: findByIdAndUpdate with upsert, which inserts a document for an id
\* the store does not hold.
CancelUpsert(p, id) ==
  /\ req[p].pc = "idle"
  /\ appts' = IF id \in Ids
              THEN [appts EXCEPT ![id] = [@ EXCEPT !.status = "cancelled"]]
              ELSE Append(appts, [NoDoc EXCEPT !.id = id, !.status = "cancelled"])
  /\ req' = [req EXCEPT ![p] =
       [Idle EXCEPT !.op = "cancel", !.pc = "done", !.result = "ok",
                    !.doc = IF id \in Ids THEN appts'[id]
                            ELSE appts'[Len(appts')]]]
  /\ UNCHANGED users

\* Mutant: a cancel that removes the document (findByIdAndDelete).
CancelDeletes(p, id) ==
  /\ req[p].pc = "idle"
  /\ IF id \in Ids
     THEN /\ appts' = SubSeq(appts, 1, id - 1) \o SubSeq(appts, id + 1, Len(appts))
          /\ req' = [req EXCEPT ![p] =
               [Idle EXCEPT !.op = "cancel", !.pc = "done", !.result = "ok",
                            !.doc = [appts[id] EXCEPT !.status = "cancelled"]]]
     ELSE /\ UNCHANGED appts
          /\ req' = [req EXCEPT ![p] =
               [Idle EXCEPT !.op = "cancel", !.pc = "done",
                            !.result = "null"]]
  /\ UNCHANGED users

\* Mutant: the update filtered on status "scheduled", so that an appointment
\* in another status is returned as it is.
CancelOnlyScheduled(p, id) ==
  /\ req[p].pc = "idle"
  /\ IF id \in Ids
     THEN /\ appts' = IF appts[id].status = "scheduled"
                      THEN [appts EXCEPT ![id] = [@ EXCEPT !.status = "cancelled"]]
                      ELSE appts
          /\ req' = [req EXCEPT ![p] =
               [Idle EXCEPT !.op = "cancel", !.pc = "done",
                            !.result = "ok", !.doc = appts'[id]]]
     ELSE /\ UNCHANGED appts
          /\ req' = [req EXCEPT ![p] =
               [Idle EXCEPT !.op = "cancel", !.pc = "done",
                            !.result = "null"]]
  /\ UNCHANGED users

Cancel(p, id) ==
  /\ req[p].pc = "idle"
  /\ IF id \in Ids
     THEN /\ appts' = SetStatus(appts, id, "cancelled")
          /\ req' = [req EXCEPT ![p] =
               [Idle EXCEPT !.op = "cancel", !.pc = "done",
                            !.result = "ok", !.doc = appts'[id]]]
     ELSE /\ UNCHANGED appts
          /\ req' = [req EXCEPT ![p] =
               [Idle EXCEPT !.op = "cancel", !.pc = "done",
                            !.result = "null"]]
  /\ UNCHANGED users

\* Mutant: the update filtered on status "scheduled", so that a cancelled
\* appointment is returned as it is.
CompleteOnlyScheduled(p, id) ==
  /\ req[p].pc = "idle"
  /\ IF id \in Ids
     THEN /\ appts' = IF appts[id].status = "scheduled"
                      THEN [appts EXCEPT ![id] = [@ EXCEPT !.status = "completed"]]
                      ELSE appts
          /\ req' = [req EXCEPT ![p] =
               [Idle EXCEPT !.op = "complete", !.pc = "done",
                            !.result = "ok", !.doc = appts'[id]]]
     ELSE /\ UNCHANGED appts
          /\ req' = [req EXCEPT ![p] =
               [Idle EXCEPT !.op = "complete", !.pc = "done",
                            !.result = "null"]]
  /\ UNCHANGED users

Complete(p, id) ==
  /\ req[p].pc = "idle"
  /\ IF id \in Ids
     THEN /\ appts' = SetStatus(appts, id, "completed")
          /\ req' = [req EXCEPT ![p] =
               [Idle EXCEPT !.op = "complete", !.pc = "done",
                            !.result = "ok", !.doc = appts'[id]]]
     ELSE /\ UNCHANGED appts
          /\ req' = [req EXCEPT ![p] =
               [Idle EXCEPT !.op = "complete", !.pc = "done",
                            !.result = "null"]]
  /\ UNCHANGED users

\* ------------------------------------------------------------- getById
\* Appointment.findById(id): the stored document, or null.
GetById(p, id) ==
  /\ req[p].pc = "idle"
  /\ req' = [req EXCEPT ![p] =
       IF id \in Ids
       THEN [Idle EXCEPT !.op = "getById", !.pc = "done", !.result = "ok",
                         !.doc = appts[id]]
       ELSE [Idle EXCEPT !.op = "getById", !.pc = "done", !.result = "null"]]
  /\ UNCHANGED appts
  /\ UNCHANGED users

\* -------------------------------------------------- getAppointmentsService
\* A filter with no field present.
NoFilter ==
  [patientId |-> UNDEF, doctorId |-> UNDEF, status |-> UNDEF,
   from |-> UndefTime, to |-> UndefTime]

\* The query object the service builds: a field of the filter is copied when
\* it is truthy; a bound is set when it is present and parses.
BuildQuery(filter) ==
  [patientId |-> filter.patientId, doctorId |-> filter.doctorId,
   status |-> filter.status,
   hasGte |-> filter.from.kind # "undefined" /\ ~IsNaN(ParseDate(filter.from)),
   gte |-> ParseDate(filter.from),
   hasLte |-> filter.to.kind # "undefined" /\ ~IsNaN(ParseDate(filter.to)),
   lte |-> ParseDate(filter.to)]

\* Mutant: the upper bound written with $lt.
MatchesQueryExclusiveTo(a, query) ==
  /\ query.patientId # UNDEF => a.patientId = query.patientId
  /\ query.doctorId # UNDEF => a.doctorId = query.doctorId
  /\ query.status # UNDEF => a.status = query.status
  /\ query.hasGte => a.startTime >= query.gte
  /\ query.hasLte => a.startTime < query.lte

\* A document matches the query: equality on the fields the query holds,
\* $gte and $lte on startTime.
MatchesQuery(a, query) ==
  /\ query.patientId # UNDEF => a.patientId = query.patientId
  /\ query.doctorId # UNDEF => a.doctorId = query.doctorId
  /\ query.status # UNDEF => a.status = query.status
  /\ query.hasGte => a.startTime >= query.gte
  /\ query.hasLte => a.startTime <= query.lte

\* Appointment.find(query): the matching documents, in storage order.
Find(store, query) == SelectSeq(store, LAMBDA a : MatchesQuery(a, query))

\* sorted, a sequence in ascending startTime, with a put in after the
\* elements that do not start later.
InsertByStartTime(sorted, a) ==
  LET before == SelectSeq(sorted, LAMBDA b : b.startTime <= a.startTime)
      after == SelectSeq(sorted, LAMBDA b : b.startTime > a.startTime)
  IN  before \o <<a>> \o after

\* .sort({ startTime: 1 }): ascending startTime; documents with one
\* startTime stay in storage order.
RECURSIVE SortByStartTime(_)
SortByStartTime(docs) ==
  IF docs = <<>> THEN <<>>
  ELSE InsertByStartTime(SortByStartTime(SubSeq(docs, 1, Len(docs) - 1)),
                         docs[Len(docs)])

GetAppointments(p, filter) ==
  /\ req[p].pc = "idle"
  /\ req' = [req EXCEPT ![p] =
       [Idle EXCEPT !.op = "list", !.pc = "done", !.result = "ok",
                    !.list = SortByStartTime(Find(appts, BuildQuery(filter)))]]
  /\ UNCHANGED appts
  /\ UNCHANGED users

\* ----------------------------------------------- getAppointmentsController
\* getAppointmentQuerySchema.safeParse fails: a bound z.coerce.date cannot
\* read, or a status outside the enum.
QuerySchemaRejects(data) ==
  \/ data.from.kind = "garbage"
  \/ data.to.kind = "garbage"
  \/ data.status \notin Statuses \cup {UNDEF}

\* The filter object the controller builds from the parsed data: each of the
\* five fields that is truthy.
ControllerFilter(query) ==
  [patientId |-> query.patientId, doctorId |-> query.doctorId,
   status |-> query.status, from |-> query.from, to |-> query.to]

\* The controller applies the schema to req.params and hands the service the
\* filter built from what the schema returned.
GetAppointmentsController(p, request) ==
  IF QuerySchemaRejects(request.params)
  THEN /\ req[p].pc = "idle"
       /\ req' = [req EXCEPT ![p] =
            [Idle EXCEPT !.op = "list", !.pc = "done",
                         !.result = "ValidationError"]]
       /\ UNCHANGED <<appts, users>>
  ELSE GetAppointments(p, ControllerFilter(request.params))

\* What a controller makes of its service call: the by-id controllers throw
\* NotFoundError on null, an error the service threw passes through.
ControllerOutcome(frame) ==
  IF frame.result = "null" /\ frame.op \in {"getById", "update", "cancel", "complete"}
  THEN "NotFoundError"
  ELSE frame.result

\* The handler has answered; it is free for the next request.
Respond(p) ==
  /\ req[p].pc = "done"
  /\ req' = [req EXCEPT ![p] = Idle]
  /\ UNCHANGED appts
  /\ UNCHANGED users

\* ------------------------------------------------------------ user service
MaxUsers == 2

UserIds == 1..Len(users)

\* email.trim().toLowerCase(), and the lowercase/trim setters of the schema.
Normalize(email) ==
  IF email \in {"Ann@X.io", " ann@x.io "} THEN "ann@x.io" ELSE email

\* z.email accepts the address (no blank around it, one @, a domain).
IsEmail(email) == email \in {"ann@x.io", "Ann@X.io", "bob@x.io"}

\* bcrypt.hash(password, 10), up to the salt.
Hash(password) == <<"bcrypt", password>>

\* bcrypt.compare(password, passwordHash).
Compare(password, passwordHash) == passwordHash = Hash(password)

\* User.findOne({ email }): the stored users with that email, as ids.
FindByEmail(store, email) == {u \in DOMAIN store : store[u].email = email}

\* The document User.create builds; role and isActive take their defaults.
NewUser(id, email, passwordHash, role) ==
  [id |-> id, email |-> Normalize(email), passwordHash |-> passwordHash,
   role |-> IF role = UNDEF THEN "patient" ELSE role, isActive |-> TRUE]

Registering == {p \in Procs : req[p].pc = "userInsert"}

\* registerUserSchema.safeParse fails.
RegisterSchemaRejects(body) ==
  \/ ~IsEmail(body.email)
  \/ body.password \in {"", "short"}
  \/ body.role \notin {UNDEF, "patient", "doctor", "admin"}

\* registerUserController up to the findOne of createUserService.
RegisterStart(p, body) ==
  /\ req[p].pc = "idle"
  /\ Len(users) + Cardinality(Registering) < MaxUsers
  /\ req' = [req EXCEPT ![p] =
       IF RegisterSchemaRejects(body)
       THEN [Idle EXCEPT !.op = "register", !.pc = "done", !.input = body,
                         !.result = "ValidationError"]
       ELSE IF FindByEmail(users, Normalize(body.email)) # {}
       THEN [Idle EXCEPT !.op = "register", !.pc = "done", !.input = body,
                         !.result = "ConflictError"]
       ELSE [Idle EXCEPT !.op = "register", !.pc = "userInsert", !.input = body]]
  /\ UNCHANGED <<appts, users>>

\* bcrypt.hash, then User.create: the unique index on email refuses a second
\* document with the address; the driver's error is no HttpError.
RegisterInsert(p) ==
  /\ req[p].pc = "userInsert"
  /\ LET body == req[p].input
         user == NewUser(Len(users) + 1, body.email, Hash(body.password), body.role)
     IN  IF FindByEmail(users, user.email) # {}
         THEN /\ UNCHANGED users
              /\ req' = [req EXCEPT ![p] =
                   [Idle EXCEPT !.op = "register", !.pc = "done", !.input = body,
                                !.result = "InternalError"]]
         ELSE /\ users' = Append(users, user)
              /\ req' = [req EXCEPT ![p] =
                   [Idle EXCEPT !.op = "register", !.pc = "done", !.input = body,
                                !.result = "ok", !.doc = user]]
  /\ UNCHANGED appts

\* loginUserSchema.safeParse fails.
LoginSchemaRejects(body) == ~IsEmail(body.email) \/ body.password = ""

\* loginUserController up to the answer of getUserByEmailService: the user
\* document as it is stored at that moment, or null.
LoginStart(p, body) ==
  /\ req[p].pc = "idle"
  /\ LET found == FindByEmail(users, Normalize(body.email))
     IN  req' = [req EXCEPT ![p] =
           IF LoginSchemaRejects(body)
           THEN [Idle EXCEPT !.op = "login", !.pc = "done", !.input = body,
                             !.result = "ValidationError"]
           ELSE IF found = {}
           THEN [Idle EXCEPT !.op = "login", !.pc = "done", !.input = body,
                             !.result = "UnauthorizedError"]
           ELSE [Idle EXCEPT !.op = "login", !.pc = "verify", !.input = body,
                             !.doc = users[CHOOSE u \in found : TRUE]]]
  /\ UNCHANGED <<appts, users>>

\* The rest of loginUserController, once bcrypt.compare has answered: the
\* password and isActive are those of the document the lookup returned.
LoginVerify(p) ==
  /\ req[p].pc = "verify"
  /\ LET user == req[p].doc
     IN  req' = [req EXCEPT ![p] =
           IF ~Compare(req[p].input.password, user.passwordHash)
           THEN [@ EXCEPT !.pc = "done", !.result = "UnauthorizedError"]
           ELSE IF ~user.isActive
           THEN [@ EXCEPT !.pc = "done", !.result = "ValidationError"]
           ELSE [@ EXCEPT !.pc = "done", !.result = "ok"]]
  /\ UNCHANGED <<appts, users>>

\* deactivateUserService: findByIdAndUpdate(id, { isActive: false }).
DeactivateUser(p, id) ==
  /\ req[p].pc = "idle"
  /\ IF id \in UserIds
     THEN /\ users' = [users EXCEPT ![id].isActive = FALSE]
          /\ req' = [req EXCEPT ![p] =
               [Idle EXCEPT !.op = "deactivateUser", !.pc = "done",
                            !.result = "ok", !.doc = users'[id]]]
     ELSE /\ UNCHANGED users
          /\ req' = [req EXCEPT ![p] =
               [Idle EXCEPT !.op = "deactivateUser", !.pc = "done",
                            !.result = "null"]]
  /\ UNCHANGED appts

\* The patch updateUserService builds and findByIdAndUpdate applies.  The
\* optional boolean is a set: empty for undefined, or holding the value.
ApplyUserPatch(user, update) ==
  [user EXCEPT
     !.email = IF update.email # UNDEF THEN Normalize(update.email) ELSE @,
     !.passwordHash = IF update.password # UNDEF THEN Hash(update.password) ELSE @,
     !.role = IF update.role # UNDEF THEN update.role ELSE @,
     !.isActive = IF update.isActive # {} THEN CHOOSE b \in update.isActive : TRUE
                  ELSE @]

\* updateUserService.
UpdateUser(p, id, update) ==
  /\ req[p].pc = "idle"
  /\ IF id \in UserIds
     THEN /\ users' = [users EXCEPT ![id] = ApplyUserPatch(@, update)]
          /\ req' = [req EXCEPT ![p] =
               [Idle EXCEPT !.op = "updateUser", !.pc = "done",
                            !.result = "ok", !.doc = users'[id]]]
     ELSE /\ UNCHANGED users
          /\ req' = [req EXCEPT ![p] =
               [Idle EXCEPT !.op = "updateUser", !.pc = "done",
                            !.result = "null"]]
  /\ UNCHANGED appts

\* ------------------------------------------------------------ the inputs
\* A request body of POST /api/appointments; status is a key the schema does
\* not know, which a client may send all the same.
CreateBodies ==
  {[NoInput EXCEPT !.patientId = pt, !.doctorId = d, !.startTime = s,
                   !.endTime = e, !.status = st] :
     pt \in Patients, d \in Doctors, s \in RawTimes, e \in RawTimes,
     st \in {UNDEF, "cancelled"}}

\* Ids a caller may address: those of the store and one that is not in it.
AnyId == 1..(MaxAppts + 1)

PatchTimes == RawTimes \cup {UndefTime}

\* The updates argument of updateAppointmentService: every patch of the two
\* times, every patch of the status alone (one value outside the enum
\* included), and a status together with a time that does not parse.
UpdateInputs ==
  {[NoInput EXCEPT !.startTime = s, !.endTime = e, !.status = st] :
     s \in PatchTimes, e \in PatchTimes, st \in {UNDEF}}
  \cup
  {[NoInput EXCEPT !.startTime = s, !.endTime = e, !.status = st] :
     s \in {UndefTime, Garbage}, e \in {UndefTime, Garbage},
     st \in Statuses \cup {"no_show"}}

\* The patches that write the status alone, one per value of the enum.
StatusPatches == {[NoInput EXCEPT !.status = st] : st \in Statuses}

\* The filter argument of getAppointmentsService: each field absent or one
\* of its values; a bound may be a string that is no date.
ListFilters ==
  {[patientId |-> pt, doctorId |-> d, status |-> st, from |-> f, to |-> t] :
     pt \in Patients \cup {UNDEF}, d \in Doctors \cup {UNDEF},
     st \in Statuses \cup {UNDEF}, f \in PatchTimes, t \in PatchTimes}

\* A request of GET /api/appointments: the route has no parameter, so
\* req.params is the empty object; req.query holds the query string's fields.
ListRequests == {[params |-> NoFilter, query |-> q] : q \in ListFilters}

\* Request bodies of one patient with one doctor that carry a reason and
\* notes, and the patches that write any of the five fields.
TextBodies ==
  {[NoInput EXCEPT !.patientId = "P1", !.doctorId = "D1",
                   !.startTime = IsoTime(s), !.endTime = IsoTime(e),
                   !.reason = r, !.notes = n] :
     s \in Instants, e \in Instants, r \in {UNDEF, " flu "},
     n \in {UNDEF, "fasting"}}

TextPatches ==
  {[NoInput EXCEPT !.startTime = s, !.endTime = e, !.reason = r, !.notes = n,
                   !.status = st] :
     s \in {UndefTime, Garbage, IsoTime(MaxTime)}, e \in {UndefTime, Garbage},
     r \in {UNDEF, "cough", " flu "}, n \in {UNDEF, "fasting"},
     st \in {UNDEF, "completed"}}

\* --------------------------------------------------------- specifications
\* Spec: the calls arrive one after the other (one handler), every operation
\* of the service.
Init ==
  /\ appts = <<>>
  /\ req = [p \in {1} |-> Idle]
  /\ users = <<>>

Next ==
  \/ \E p \in Procs, body \in CreateBodies : CreateStart(p, body)
  \/ \E p \in Procs : CreateQuery(p)
  \/ \E p \in Procs : CreateInsert(p)
  \/ \E p \in Procs, id \in AnyId, updates \in UpdateInputs : Update(p, id, updates)
  \/ \E p \in Procs, id \in AnyId, body \in UpdateInputs : UpdateController(p, id, body)
  \/ \E p \in Procs, id \in AnyId : Cancel(p, id)
  \/ \E p \in Procs, id \in AnyId : Complete(p, id)
  \/ \E p \in Procs, id \in AnyId : GetById(p, id)
  \/ \E p \in Procs : Respond(p)

Spec == Init /\ [][Next]_vars

\* SpecConc: NumProcs handlers serve requests concurrently; their store calls
\* interleave in any order.  Booking operations: create, cancel, complete.
InitConc ==
  /\ appts = <<>>
  /\ req = [p \in 1..NumProcs |-> Idle]
  /\ users = <<>>

NextConc ==
  \/ \E p \in Procs, body \in CreateBodies : CreateStart(p, body)
  \/ \E p \in Procs : CreateQuery(p)
  \/ \E p \in Procs : CreateInsert(p)
  \/ \E p \in Procs, id \in AnyId : Cancel(p, id)
  \/ \E p \in Procs, id \in AnyId : Complete(p, id)
  \/ \E p \in Procs : Respond(p)

SpecConc == InitConc /\ [][NextConc]_vars

\* SpecRace: NumProcs handlers, each serving createAppointmentService calls
\* only, so that a stored appointment is never cancelled or moved.
NextRace ==
  \/ \E p \in Procs, body \in CreateBodies : CreateStart(p, body)
  \/ \E p \in Procs : CreateQuery(p)
  \/ \E p \in Procs : CreateInsert(p)
  \/ \E p \in Procs : Respond(p)

SpecRace == InitConc /\ [][NextRace]_vars

\* SpecStatus: NumProcs handlers; besides the booking operations, updates
\* that write the status.
NextStatus ==
  \/ \E p \in Procs, body \in CreateBodies : CreateStart(p, body)
  \/ \E p \in Procs : CreateQuery(p)
  \/ \E p \in Procs : CreateInsert(p)
  \/ \E p \in Procs, id \in AnyId, updates \in StatusPatches : Update(p, id, updates)
  \/ \E p \in Procs, id \in AnyId : Cancel(p, id)
  \/ \E p \in Procs, id \in AnyId : Complete(p, id)
  \/ \E p \in Procs : Respond(p)

SpecStatus == InitConc /\ [][NextStatus]_vars

\* SpecList: one handler; bookings are made, cancelled and completed, and the
\* list is read.
NextList ==
  \/ \E p \in Procs, body \in CreateBodies : CreateStart(p, body)
  \/ \E p \in Procs : CreateQuery(p)
  \/ \E p \in Procs : CreateInsert(p)
  \/ \E p \in Procs, id \in AnyId : Cancel(p, id)
  \/ \E p \in Procs, id \in AnyId : Complete(p, id)
  \/ \E p \in Procs, filter \in ListFilters : GetAppointments(p, filter)
  \/ \E p \in Procs, request \in ListRequests : GetAppointmentsController(p, request)
  \/ \E p \in Procs : Respond(p)

SpecList == Init /\ [][NextList]_vars

\* SpecLive: NumProcs handlers serve every operation of the service, on the
\* requests of one patient; each store call that a handler has made returns
\* (weak fairness of the steps that follow a store call).
LiveBodies == {body \in CreateBodies : body.patientId = "P1" /\ body.status = UNDEF}

LivePatches == StatusPatches \cup {[NoInput EXCEPT !.startTime = Garbage]}

LiveFilters ==
  {NoFilter, [NoFilter EXCEPT !.doctorId = "D1", !.status = "scheduled"]}

NextLive ==
  \/ \E p \in Procs, body \in LiveBodies : CreateStart(p, body)
  \/ \E p \in Procs : CreateQuery(p)
  \/ \E p \in Procs : CreateInsert(p)
  \/ \E p \in Procs, id \in AnyId, updates \in LivePatches : Update(p, id, updates)
  \/ \E p \in Procs, id \in AnyId : Cancel(p, id)
  \/ \E p \in Procs, id \in AnyId : Complete(p, id)
  \/ \E p \in Procs, id \in AnyId : GetById(p, id)
  \/ \E p \in Procs, filter \in LiveFilters : GetAppointments(p, filter)
  \/ \E p \in Procs : Respond(p)

SpecLive ==
  /\ InitConc
  /\ [][NextLive]_vars
  /\ \A p \in 1..NumProcs : WF_vars(CreateQuery(p)) /\ WF_vars(CreateInsert(p))

\* SpecText: one handler; the appointments carry a reason and notes, and the
\* updates write any of the five fields.
NextText ==
  \/ \E p \in Procs, body \in TextBodies : CreateStart(p, body)
  \/ \E p \in Procs : CreateQuery(p)
  \/ \E p \in Procs : CreateInsert(p)
  \/ \E p \in Procs, id \in AnyId, updates \in TextPatches : Update(p, id, updates)
  \/ \E p \in Procs, id \in AnyId : Cancel(p, id)
  \/ \E p \in Procs, id \in AnyId : Complete(p, id)
  \/ \E p \in Procs : Respond(p)

SpecText == Init /\ [][NextText]_vars

\* SpecSeq: one handler, so that the conflict query and the insert of a
\* create run with no other operation between them; besides create, only
\* cancel and complete.
NextSeq ==
  \/ \E p \in Procs, body \in CreateBodies : CreateStart(p, body)
  \/ \E p \in Procs : CreateQuery(p)
  \/ \E p \in Procs : CreateInsert(p)
  \/ \E p \in Procs, id \in AnyId : Cancel(p, id)
  \/ \E p \in Procs, id \in AnyId : Complete(p, id)
  \/ \E p \in Procs : Respond(p)

SpecSeq == Init /\ [][NextSeq]_vars

\* SpecAuth: NumProcs handlers serve the requests of the auth routes and the
\* calls of the user service concurrently.
RegisterBodies ==
  {[email |-> e, password |-> "secret-01", role |-> UNDEF] :
     e \in {"Ann@X.io", "bob@x.io", " ann@x.io "}}

LoginBodies ==
  {[email |-> e, password |-> pw] :
     e \in {"ann@x.io", "Ann@X.io", "bob@x.io", " ann@x.io "},
     pw \in {"secret-01", "secret-02", ""}}

UserUpdates ==
  {[email |-> UNDEF, password |-> pw, role |-> r, isActive |-> a] :
     pw \in {UNDEF, "secret-02"}, r \in {UNDEF, "doctor"}, a \in {{}, {TRUE}, {FALSE}}}

AnyUserId == 1..MaxUsers

NextAuth ==
  \/ \E p \in Procs, body \in RegisterBodies : RegisterStart(p, body)
  \/ \E p \in Procs : RegisterInsert(p)
  \/ \E p \in Procs, body \in LoginBodies : LoginStart(p, body)
  \/ \E p \in Procs : LoginVerify(p)
  \/ \E p \in Procs, id \in AnyUserId : DeactivateUser(p, id)
  \/ \E p \in Procs, id \in AnyUserId, update \in UserUpdates : UpdateUser(p, id, update)
  \/ \E p \in Procs : Respond(p)

SpecAuth == InitConc /\ [][NextAuth]_vars

\* ================================================================ claims
\* Two half-open intervals [s1, e1) and [s2, e2) intersect.
Intersects(s1, e1, s2, e2) == s1 < e2 /\ s2 < e1

\* A raw time that is no instant.
Unparseable(raw) == raw.kind # "iso"

\* Handler p took a step of its own.
Stepped(p) == req'[p] # req[p]

\* C1: for every doctor, no two distinct stored appointments with a status
\* other than cancelled have intersecting intervals [startTime, endTime).
NoOverlap ==
  \A i, j \in Ids :
    (/\ i # j
     /\ appts[i].doctorId = appts[j].doctorId
     /\ appts[i].status # "cancelled"
     /\ appts[j].status # "cancelled")
    => ~Intersects(appts[i].startTime, appts[i].endTime,
                   appts[j].startTime, appts[j].endTime)

\* C2: of the createAppointmentService calls for one doctor and intersecting
\* intervals that run concurrently, at most one persists an appointment.
\* (Under SpecRace no appointment is ever cancelled or moved, so two such
\* calls that both succeeded had their query and insert steps interleaved.)
AtMostOneConcurrentCreateSucceeds ==
  \A p, q \in Procs :
    (/\ p # q
     /\ req[p].op = "create" /\ req[p].result = "ok"
     /\ req[q].op = "create" /\ req[q].result = "ok"
     /\ req[p].doc.doctorId = req[q].doc.doctorId)
    => ~Intersects(req[p].doc.startTime, req[p].doc.endTime,
                   req[q].doc.startTime, req[q].doc.endTime)

\* C3: every stored appointment satisfies endTime > startTime.
IntervalValid == \A i \in Ids : appts[i].endTime > appts[i].startTime

\* C4: a create whose startTime or endTime does not parse, or whose endTime
\* is not after its startTime (equal included), fails with ValidationError
\* and leaves the store as it was; no record with such an interval is ever
\* persisted by create.
CreateRejectsInvalidInterval ==
  /\ [](\A i \in Ids : /\ appts[i].startTime \in Instants
                        /\ appts[i].endTime \in Instants
                        /\ appts[i].endTime > appts[i].startTime)
  /\ [][\A p \in Procs :
         (req[p].pc = "idle" /\ req'[p].op = "create")
         => \A body \in CreateBodies :
              (/\ \/ Unparseable(body.startTime)
                  \/ Unparseable(body.endTime)
                  \/ body.endTime.t <= body.startTime.t
               /\ CreateStart(p, body))
              => (/\ req'[p].pc = "done"
                  /\ req'[p].result = "ValidationError"
                  /\ appts' = appts)]_vars

CreateRejectedWitness ==
  \E p \in Procs :
    /\ req[p].op = "create" /\ req[p].pc = "done"
    /\ req[p].result = "ValidationError"
    /\ appts # <<>>

\* C5: an update whose resulting interval (the patched times merged with the
\* stored values of the unpatched ones) has endTime <= startTime is rejected
\* and leaves the stored appointment unchanged.
UpdateRejectsInvalidInterval ==
  [][\A p \in Procs :
       (req[p].pc = "idle" /\ req'[p].op = "update")
       => \A id \in Ids, updates \in UpdateInputs :
            (/\ ~Unparseable(updates.startTime) \/ updates.startTime = UndefTime
             /\ ~Unparseable(updates.endTime) \/ updates.endTime = UndefTime
             /\ LET s == IF updates.startTime = UndefTime
                         THEN appts[id].startTime ELSE updates.startTime.t
                    e == IF updates.endTime = UndefTime
                         THEN appts[id].endTime ELSE updates.endTime.t
                IN  e <= s
             /\ Update(p, id, updates))
            => (/\ req'[p].result = "ValidationError"
                /\ appts'[id] = appts[id])]_vars

\* C6: when the conflict check of a create runs and the store holds an
\* appointment of the same doctor, with a status other than cancelled, whose
\* startTime is before the requested end and whose endTime is after the
\* requested start, the create fails with ConflictError and the store is
\* left as it was.
CreateConflictRejected ==
  [][\A p \in Procs :
       (/\ req[p].pc = "query" /\ Stepped(p)
        /\ \E i \in Ids :
             /\ appts[i].doctorId = req[p].input.doctorId
             /\ appts[i].status # "cancelled"
             /\ appts[i].startTime < req[p].input.endTime.t
             /\ appts[i].endTime > req[p].input.startTime.t)
       => (/\ req'[p].pc = "done"
           /\ req'[p].result = "ConflictError"
           /\ req'[p].doc = NoDoc
           /\ appts' = appts)]_vars

\* A create has failed with ConflictError while the store holds one
\* appointment only.
CreateConflictWitness ==
  \E p \in Procs :
    /\ req[p].op = "create" /\ req[p].result = "ConflictError"
    /\ Len(appts) = 1
    /\ appts[1].status # "cancelled"

\* C7: the insert of a create adds exactly one record to the store, with
\* status scheduled, an id no stored record has, and the patientId, doctorId,
\* startTime and endTime of the input; the call returns that record.
CreatePersistsScheduled ==
  [][\A p \in Procs :
       (\/ req[p].pc = "insert" /\ Stepped(p)
        \/ req[p].result # "ok" /\ req'[p].op = "create" /\ req'[p].result = "ok")
       => (/\ req[p].pc = "insert"
           /\ Len(appts') = Len(appts) + 1
           /\ \A i \in Ids : appts'[i] = appts[i]
           /\ LET a == appts'[Len(appts')]
              IN  /\ a.status = "scheduled"
                  /\ \A i \in Ids : appts[i].id # a.id
                  /\ a.patientId = req[p].input.patientId
                  /\ a.doctorId = req[p].input.doctorId
                  /\ a.startTime = req[p].input.startTime.t
                  /\ a.endTime = req[p].input.endTime.t
                  /\ req'[p].pc = "done"
                  /\ req'[p].result = "ok"
                  /\ req'[p].doc = a)]_vars

CreatePersistsWitness ==
  \E p \in Procs :
    /\ req[p].op = "create" /\ req[p].result = "ok"
    /\ Len(appts) = 2
    /\ req[p].doc = appts[2]
    /\ appts[2].patientId # appts[1].patientId

\* C8: a create whose requested interval is intersected, among the stored
\* appointments of its doctor, by cancelled ones only passes the conflict
\* check, and its insert succeeds.
CancelledDoNotBlock ==
  [][\A p \in Procs :
       /\ (/\ req[p].pc = "query" /\ Stepped(p)
            /\ \A i \in Ids :
                 (/\ appts[i].doctorId = req[p].input.doctorId
                  /\ Intersects(appts[i].startTime, appts[i].endTime,
                                req[p].input.startTime.t, req[p].input.endTime.t))
                 => appts[i].status = "cancelled")
          => req'[p].pc = "insert"
       /\ (req[p].pc = "insert" /\ Stepped(p))
          => (req'[p].result = "ok" /\ req'[p].doc \in {appts'[i] : i \in DOMAIN appts'})]_vars

\* A handler is past the conflict check although a cancelled appointment of
\* its doctor intersects the requested interval.
CancelledDoNotBlockWitness ==
  \E p \in Procs, i \in Ids :
    /\ req[p].op = "create" /\ req[p].result = "ok"
    /\ i < req[p].doc.id
    /\ appts[i].status = "cancelled"
    /\ appts[i].doctorId = req[p].doc.doctorId
    /\ Intersects(appts[i].startTime, appts[i].endTime,
                  req[p].doc.startTime, req[p].doc.endTime)
    /\ appts[req[p].doc.id].status = "scheduled"

\* C9: with one active appointment [s, e) of doctor D in the store and no
\* other appointment of D, a create for D that starts at e or ends at s
\* passes the conflict check, and its insert succeeds.
BackToBackAllowed ==
  [][\A p \in Procs :
       /\ (/\ req[p].pc = "query" /\ Stepped(p)
            /\ \E i \in Ids :
                 /\ appts[i].doctorId = req[p].input.doctorId
                 /\ appts[i].status # "cancelled"
                 /\ appts[i].startTime < appts[i].endTime
                 /\ \/ req[p].input.startTime.t = appts[i].endTime
                    \/ req[p].input.endTime.t = appts[i].startTime
                 /\ \A j \in Ids \ {i} :
                      appts[j].doctorId # req[p].input.doctorId)
          => req'[p].pc = "insert"
       /\ (req[p].pc = "insert" /\ Stepped(p))
          => (req'[p].result = "ok" /\ Len(appts') = Len(appts) + 1)]_vars

BackToBackWitness ==
  \E p \in Procs, i \in Ids :
    /\ req[p].op = "create" /\ req[p].result = "ok"
    /\ i # req[p].doc.id
    /\ appts[i].doctorId = req[p].doc.doctorId
    /\ appts[i].status # "cancelled"
    /\ appts[i].endTime = req[p].doc.startTime

\* C10: cancel of an existing id succeeds and leaves that appointment with
\* status cancelled whatever its status was; on an appointment that is
\* cancelled already it changes nothing in the store.
CancelIdempotent ==
  [][\A p \in Procs :
       (req[p].pc = "idle" /\ req'[p].op = "cancel")
       => \A id \in Ids :
            Cancel(p, id)
            => (/\ req'[p].result = "ok"
                /\ req'[p].doc.id = id
                /\ req'[p].doc.status = "cancelled"
                /\ appts'[id].status = "cancelled"
                /\ appts[id].status = "cancelled" => appts' = appts)]_vars

\* Two cancels of one id have both succeeded.
CancelTwiceWitness ==
  \E p, q \in Procs :
    /\ p # q
    /\ req[p].op = "cancel" /\ req[p].result = "ok"
    /\ req[q].op = "cancel" /\ req[q].result = "ok"
    /\ req[p].doc.id = req[q].doc.id
    /\ req[p].doc.status = "cancelled" /\ req[q].doc.status = "cancelled"

\* C11: complete of an existing id succeeds and leaves that appointment with
\* status completed whatever its status was, cancelled included; on an
\* appointment that is completed already it changes nothing in the store.
CompleteIdempotent ==
  [][\A p \in Procs :
       (req[p].pc = "idle" /\ req'[p].op = "complete")
       => \A id \in Ids :
            Complete(p, id)
            => (/\ req'[p].result = "ok"
                /\ req'[p].doc.id = id
                /\ req'[p].doc.status = "completed"
                /\ appts'[id].status = "completed"
                /\ appts[id].status = "completed" => appts' = appts)]_vars

\* An appointment that a cancel had answered for is completed: the complete
\* ran on a cancelled appointment.
CompleteAfterCancelWitness ==
  \E p, q \in Procs :
    /\ p # q
    /\ req[p].op = "cancel" /\ req[p].result = "ok"
    /\ req[q].op = "complete" /\ req[q].result = "ok"
    /\ req[p].doc.id = req[q].doc.id
    /\ req[q].doc.status = "completed"
    /\ appts[req[q].doc.id].status = "completed"

\* An updates argument the service takes without throwing: its present times
\* parse and its status, when present, is one of the schema's enum.
PatchValid(updates) ==
  /\ updates.startTime.kind # "garbage"
  /\ updates.endTime.kind # "garbage"
  /\ updates.status \in Statuses \cup {UNDEF}

\* C12 (as stated): in every reachable state, update, cancel, complete and
\* getById addressed to an id that is not in the store yield not-found (the
\* service returns null, the controller raises NotFoundError) and leave the
\* store unchanged: no such call can end otherwise.
MissingIdNotFound ==
  \A p \in Procs : \A id \in AnyId \ Ids :
    ~ENABLED (/\ \/ GetById(p, id) \/ Cancel(p, id) \/ Complete(p, id)
                 \/ \E updates \in UpdateInputs : Update(p, id, updates)
              /\ ~(/\ req'[p].result = "null"
                   /\ ControllerOutcome(req'[p]) = "NotFoundError"
                   /\ appts' = appts))

\* C12 (amended): cancel, complete, getById, and an update whose patch the
\* service accepts, addressed to an id that is not in the store yield
\* not-found (the service returns null, the controller raises NotFoundError);
\* an update whose patch the service does not accept fails with its
\* validation error first; in every case the store is left unchanged and no
\* record is created.
MissingIdNotFoundUnlessInvalid ==
  \A p \in Procs : \A id \in AnyId \ Ids :
    /\ ~ENABLED (/\ \/ GetById(p, id) \/ Cancel(p, id) \/ Complete(p, id)
                    \/ \E updates \in UpdateInputs :
                         PatchValid(updates) /\ Update(p, id, updates)
                 /\ ~(/\ req'[p].result = "null"
                      /\ ControllerOutcome(req'[p]) = "NotFoundError"
                      /\ appts' = appts))
    /\ ~ENABLED (/\ \E updates \in UpdateInputs :
                      ~PatchValid(updates) /\ Update(p, id, updates)
                 /\ ~(/\ req'[p].result \in {"ValidationError", "InternalError"}
                      /\ appts' = appts))

\* An update of an id the non-empty store does not hold has returned null.
MissingIdWitness ==
  \E p \in Procs :
    /\ req[p].op = "update" /\ req[p].pc = "done"
    /\ req[p].result = "null" /\ req[p].doc = NoDoc
    /\ appts # <<>>

\* C13: completed and cancelled are terminal: once a stored appointment has
\* one of them, no operation changes its status.
TerminalStatusesStay ==
  [][\A i \in Ids :
       appts[i].status \in {"completed", "cancelled"}
       => appts'[i].status = appts[i].status]_vars

\* C14: the status machine is fully permissive: from any status an existing
\* appointment is moved to any status y of the enum by an update whose patch
\* is {status: y}, and to cancelled or completed by the cancel and complete
\* shortcuts; no transition guard refuses, and nothing else of the store is
\* written.
StatusFullyPermissive ==
  [][\A p \in Procs :
       (req[p].pc = "idle" /\ Stepped(p))
       => \A id \in Ids :
            /\ req'[p].op = "update"
               => \A updates \in StatusPatches :
                    Update(p, id, updates)
                    => (/\ req'[p].result = "ok"
                        /\ req'[p].doc.status = updates.status
                        /\ appts' = [appts EXCEPT ![id].status = updates.status])
            /\ (req'[p].op = "cancel" /\ Cancel(p, id))
               => (/\ req'[p].result = "ok"
                   /\ appts' = [appts EXCEPT ![id].status = "cancelled"])
            /\ (req'[p].op = "complete" /\ Complete(p, id))
               => (/\ req'[p].result = "ok"
                   /\ appts' = [appts EXCEPT ![id].status = "completed"])]_vars

\* An appointment that a cancel had answered for is scheduled again: the
\* update {status: scheduled} ran on a cancelled appointment.
ReopenedWitness ==
  \E p, q \in Procs :
    /\ p # q
    /\ req[p].op = "cancel" /\ req[p].result = "ok"
    /\ req[q].op = "update" /\ req[q].result = "ok"
    /\ req[p].doc.id = req[q].doc.id
    /\ req[q].doc.status = "scheduled"
    /\ appts[req[q].doc.id].status = "scheduled"

\* C15: an update whose patch holds none of startTime, endTime, reason, notes,
\* status is rejected with a validation error and changes nothing, through
\* updateAppointmentController and through updateAppointmentService called
\* with the empty patch alike: no such call can end otherwise.
EmptyPatchRejected ==
  \A p \in Procs : \A id \in AnyId : \A updates \in UpdateInputs :
    PatchKeys(updates) = {}
    => ~ENABLED (/\ UpdateController(p, id, updates) \/ Update(p, id, updates)
                 /\ ~(/\ req'[p].result = "ValidationError"
                      /\ appts' = appts))

\* Appointment a satisfies every field the filter holds: equality on
\* patientId, doctorId and status, from <= startTime <= to.
Satisfies(a, filter) ==
  /\ filter.patientId = UNDEF \/ a.patientId = filter.patientId
  /\ filter.doctorId = UNDEF \/ a.doctorId = filter.doctorId
  /\ filter.status = UNDEF \/ a.status = filter.status
  /\ filter.from = UndefTime \/ filter.from.t <= a.startTime
  /\ filter.to = UndefTime \/ a.startTime <= filter.to.t

\* out holds each stored appointment that satisfies the filter once, and
\* nothing else, in ascending startTime.
ExactlyTheMatchingSorted(out, filter) ==
  /\ \A k \in 1..Len(out) :
       /\ out[k].id \in Ids
       /\ out[k] = appts[out[k].id]
       /\ Satisfies(out[k], filter)
  /\ \A i \in Ids : Satisfies(appts[i], filter) => \E k \in 1..Len(out) : out[k].id = i
  /\ \A k, l \in 1..Len(out) : k < l => out[k].id # out[l].id
  /\ \A k, l \in 1..Len(out) : k < l => out[k].startTime <= out[l].startTime

\* C16: in every reachable state, getAppointmentsService with a filter whose
\* bounds, when present, are instants returns exactly the stored appointments
\* that satisfy every field the filter holds (all of them for the empty
\* filter, the empty sequence when none does), in ascending startTime, and
\* writes nothing: no such call can end otherwise.
ListReturnsMatchingSorted ==
  \A p \in Procs : \A filter \in ListFilters :
    (filter.from.kind # "garbage" /\ filter.to.kind # "garbage")
    => ~ENABLED (/\ GetAppointments(p, filter)
                 /\ ~(/\ req'[p].result = "ok"
                      /\ ExactlyTheMatchingSorted(req'[p].list, filter)
                      /\ appts' = appts))

\* A list call has returned two appointments in the order opposite to the
\* one they were stored in, the later start last.
ListSortedWitness ==
  \E p \in Procs :
    /\ req[p].op = "list" /\ req[p].pc = "done"
    /\ Len(req[p].list) = 2
    /\ req[p].list[1].id = 2 /\ req[p].list[2].id = 1
    /\ req[p].list[1].startTime < req[p].list[2].startTime

\* C17: appointments are never physically deleted: no step removes a stored
\* appointment or changes its id, so the set of ids only grows; and in every
\* reachable state getById of a stored id returns that appointment.
NeverDeleted ==
  /\ [](\A i \in Ids :
          /\ appts[i].id = i
          /\ \A p \in Procs :
               ~ENABLED (/\ GetById(p, i)
                         /\ ~(req'[p].result = "ok" /\ req'[p].doc = appts[i])))
  /\ [][/\ Len(appts') >= Len(appts)
        /\ \A i \in Ids : appts'[i].id = appts[i].id]_vars

\* getById has returned the first appointment, cancelled, from a store that
\* has taken another appointment since.
CancelledStillRetrievedWitness ==
  \E p \in Procs :
    /\ req[p].op = "getById" /\ req[p].result = "ok"
    /\ req[p].doc.id = 1 /\ req[p].doc.status = "cancelled"
    /\ Len(appts) = 2
    /\ req[p].doc = appts[1]

\* C18: GET /api/appointments applies the request's query parameters: in
\* every reachable state getAppointmentsController, for a query string that
\* the schema accepts, answers with exactly the stored appointments that
\* satisfy every field of the query string, in ascending startTime; no such
\* request can end otherwise.
ControllerAppliesQuery ==
  \A p \in Procs : \A request \in ListRequests :
    ~QuerySchemaRejects(request.query)
    => ~ENABLED (/\ GetAppointmentsController(p, request)
                 /\ ~(/\ req'[p].result = "ok"
                      /\ ExactlyTheMatchingSorted(req'[p].list, request.query)))

\* C19: every started create, list, getById, update, cancel or complete
\* finishes, with a result or a typed error, provided each store call
\* returns: a handler between two store calls can always take its next step
\* whatever the other handlers are doing (it waits for none of them and holds
\* no lock), and it reaches its answer.
OperationsTerminate ==
  /\ [](\A p \in Procs :
          /\ req[p].pc \in {"idle", "query", "insert", "done"}
          /\ req[p].pc = "query" => ENABLED <<CreateQuery(p)>>_vars
          /\ req[p].pc = "insert" => ENABLED <<CreateInsert(p)>>_vars
          /\ req[p].pc = "done"
             => req[p].result \in {"ok", "null", "ValidationError",
                                   "ConflictError", "InternalError"})
  /\ \A p \in 1..NumProcs :
       (req[p].pc \in {"query", "insert"}) ~> (req[p].pc = "done")

\* A create has answered while the create of the other handler is still
\* between its query and its insert.
FinishedBesideInFlightWitness ==
  \E p, q \in Procs :
    /\ p # q
    /\ req[p].op = "create" /\ req[p].pc = "done" /\ req[p].result = "ok"
    /\ req[q].pc = "insert"

\* C20: the conflict check of create is check-then-act: the insert does not
\* look at the store again.  Whenever a create is past its conflict query its
\* insert can be taken, and it succeeds also when the store has meanwhile
\* taken a non-cancelled appointment of the same doctor that intersects the
\* requested interval, leaving the two intersecting appointments stored.  So
\* two creates for one doctor and intersecting intervals that both query
\* before either inserts both insert (the state of CreateRaceWitness).
CreateRaceUnguarded ==
  /\ [](\A p \in Procs :
          req[p].pc = "insert" => ENABLED <<CreateInsert(p)>>_vars)
  /\ [][\A p \in Procs :
         (req[p].pc = "insert" /\ Stepped(p))
         => /\ req'[p].pc = "done" /\ req'[p].result = "ok"
            /\ appts' = Append(appts, req'[p].doc)
            /\ req'[p].doc.status = "scheduled"
            /\ req'[p].doc.doctorId = req[p].input.doctorId
            /\ req'[p].doc.startTime = req[p].start
            /\ req'[p].doc.endTime = req[p].end]_vars

\* Two creates for one doctor and intersecting intervals have both succeeded
\* and the store holds both appointments, scheduled.
CreateRaceWitness ==
  \E p, q \in Procs :
    /\ p # q
    /\ req[p].op = "create" /\ req[p].result = "ok"
    /\ req[q].op = "create" /\ req[q].result = "ok"
    /\ req[p].doc.id # req[q].doc.id
    /\ appts[req[p].doc.id] = req[p].doc /\ appts[req[q].doc.id] = req[q].doc
    /\ req[p].doc.status = "scheduled" /\ req[q].doc.status = "scheduled"
    /\ req[p].doc.doctorId = req[q].doc.doctorId
    /\ Intersects(req[p].doc.startTime, req[p].doc.endTime,
                  req[q].doc.startTime, req[q].doc.endTime)

\* C21: in every reachable state, updateAppointmentService with a patch that
\* holds one of startTime / endTime alone, an instant, succeeds on every
\* existing appointment and stores the instant, whatever the stored other
\* endpoint and whatever the other appointments of the doctor: it cannot end
\* with an interval-order error or a conflict error.
OneTimePatchUnchecked ==
  \A p \in Procs : \A id \in Ids : \A t \in Instants :
    /\ ~ENABLED (/\ Update(p, id, [NoInput EXCEPT !.startTime = IsoTime(t)])
                 /\ ~(/\ req'[p].result = "ok"
                      /\ appts' = [appts EXCEPT ![id].startTime = t]))
    /\ ~ENABLED (/\ Update(p, id, [NoInput EXCEPT !.endTime = IsoTime(t)])
                 /\ ~(/\ req'[p].result = "ok"
                      /\ appts' = [appts EXCEPT ![id].endTime = t]))

\* An update has answered with an appointment whose interval intersects that
\* of another scheduled appointment of the same doctor.
OneTimePatchWitness ==
  \E p \in Procs : \E i \in Ids :
    /\ req[p].op = "update" /\ req[p].result = "ok"
    /\ req[p].doc.id # i
    /\ appts[req[p].doc.id] = req[p].doc
    /\ appts[i].doctorId = req[p].doc.doctorId
    /\ appts[i].status = "scheduled" /\ req[p].doc.status = "scheduled"
    /\ Intersects(appts[i].startTime, appts[i].endTime,
                  req[p].doc.startTime, req[p].doc.endTime)

\* C22: completed appointments still block the slot: when the conflict query
\* of a create runs and the store holds a completed appointment of the same
\* doctor whose interval intersects the requested one, the create fails with
\* ConflictError and writes nothing; of the three statuses it is cancelled
\* alone that the query leaves out.
CompletedBlocks ==
  [][\A p \in Procs :
       (req[p].pc = "query" /\ Stepped(p))
       => LET over == {i \in Ids :
                        /\ appts[i].doctorId = req[p].input.doctorId
                        /\ Intersects(appts[i].startTime, appts[i].endTime,
                                      req[p].start, req[p].end)}
          IN  /\ (\E i \in over : appts[i].status = "completed")
                 => (/\ req'[p].pc = "done"
                     /\ req'[p].result = "ConflictError"
                     /\ appts' = appts)
              /\ req'[p].result = "ConflictError"
                 <=> \E i \in over : appts[i].status \in {"scheduled", "completed"}]_vars

\* A create has failed with ConflictError against a store whose only
\* appointment is completed.
CompletedBlocksWitness ==
  \E p \in Procs :
    /\ req[p].op = "create" /\ req[p].result = "ConflictError"
    /\ Len(appts) = 1 /\ appts[1].status = "completed"

\* C23: in every reachable state, updateAppointmentService with a startTime
\* or an endTime that does not parse fails with ValidationError and writes
\* nothing: none of the other fields of the patch (reason, notes, status, the
\* other time) reaches the stored appointment.
UnparseableTimeWritesNothing ==
  \A p \in Procs : \A id \in AnyId : \A updates \in TextPatches :
    (updates.startTime = Garbage \/ updates.endTime = Garbage)
    => ~ENABLED (/\ Update(p, id, updates)
                 /\ ~(/\ req'[p].pc = "done"
                      /\ req'[p].result = "ValidationError"
                      /\ req'[p].doc = NoDoc
                      /\ appts' = appts))

\* An update has failed with ValidationError on a store whose appointment
\* carries a reason and notes.
UnparseableTimeWitness ==
  \E p \in Procs :
    /\ req[p].op = "update" /\ req[p].pc = "done"
    /\ req[p].result = "ValidationError"
    /\ Len(appts) = 1
    /\ appts[1].reason = "flu" /\ appts[1].notes = "fasting"

\* C24: the conflict query is scoped to the doctor: when it runs and no
\* non-cancelled appointment of the requested doctor intersects the requested
\* interval, the create goes on to its insert, whatever the intervals and the
\* statuses of the appointments of other doctors, and the insert stores the
\* appointment; so one patient may hold intersecting active appointments
\* with different doctors.
OtherDoctorsDoNotBlock ==
  [][\A p \in Procs :
       /\ (/\ req[p].pc = "query" /\ Stepped(p)
           /\ \A i \in Ids :
                appts[i].doctorId = req[p].input.doctorId
                => \/ appts[i].status = "cancelled"
                   \/ ~Intersects(appts[i].startTime, appts[i].endTime,
                                  req[p].start, req[p].end))
          => (req'[p].pc = "insert" /\ appts' = appts)
       /\ (req[p].pc = "insert" /\ Stepped(p))
          => (/\ req'[p].result = "ok"
              /\ Len(appts') = Len(appts) + 1
              /\ appts'[Len(appts')].doctorId = req[p].input.doctorId
              /\ appts'[Len(appts')].patientId = req[p].input.patientId)]_vars

\* A create has succeeded for a patient who holds a scheduled appointment
\* with another doctor over an intersecting interval.
OtherDoctorWitness ==
  \E p \in Procs : \E i \in Ids :
    /\ req[p].op = "create" /\ req[p].result = "ok"
    /\ i # req[p].doc.id
    /\ appts[req[p].doc.id] = req[p].doc
    /\ appts[i].patientId = req[p].doc.patientId
    /\ appts[i].doctorId # req[p].doc.doctorId
    /\ appts[i].status = "scheduled" /\ req[p].doc.status = "scheduled"
    /\ Intersects(appts[i].startTime, appts[i].endTime,
                  req[p].doc.startTime, req[p].doc.endTime)

\* C25: in every reachable state the status of every stored appointment is
\* one of scheduled, completed, cancelled; a create that succeeds writes
\* scheduled, a cancel cancelled, a complete completed, and no step, an
\* update with a status outside the set included, writes another value.
StatusInEnum ==
  /\ [](\A i \in Ids : appts[i].status \in {"scheduled", "completed", "cancelled"})
  /\ [][\A p \in Procs :
         (Stepped(p) /\ req'[p].result = "ok")
         => /\ req'[p].op = "create" => appts'[Len(appts')].status = "scheduled"
            /\ req'[p].op = "cancel" => appts'[req'[p].doc.id].status = "cancelled"
            /\ req'[p].op = "complete" => appts'[req'[p].doc.id].status = "completed"
            /\ req'[p].op = "update"
               => appts'[req'[p].doc.id].status
                    \in {"scheduled", "completed", "cancelled"}]_vars

\* An update has been refused by the validators of the store, the stored
\* appointment keeping its status.
StatusRefusedWitness ==
  \E p \in Procs :
    /\ req[p].op = "update" /\ req[p].pc = "done"
    /\ req[p].result = "InternalError"
    /\ Len(appts) = 1 /\ appts[1].status = "completed"

\* C26: in createAppointmentService validation precedes every store access:
\* in every reachable state, a create whose times do not parse or whose
\* endTime is not after its startTime answers ValidationError in its first
\* step, without a conflict query and without a write, also when the store
\* holds an active appointment of the doctor that the query would match; it
\* cannot end with ConflictError.
ValidationBeforeStore ==
  \A p \in Procs : \A body \in CreateBodies :
    (\/ Unparseable(body.startTime) \/ Unparseable(body.endTime)
     \/ body.endTime.t <= body.startTime.t)
    => ~ENABLED (/\ CreateStart(p, body)
                 /\ ~(/\ req'[p].pc = "done"
                      /\ req'[p].result = "ValidationError"
                      /\ appts' = appts))

\* A create has answered ValidationError while the store holds a scheduled
\* appointment over the whole range of instants.
ValidationFirstWitness ==
  \E p \in Procs :
    /\ req[p].op = "create" /\ req[p].pc = "done"
    /\ req[p].result = "ValidationError"
    /\ Len(appts) = 1
    /\ appts[1].status = "scheduled"
    /\ appts[1].startTime = 0 /\ appts[1].endTime = MaxTime

\* C27: frame of update: in every reachable state, an
\* updateAppointmentService(id, patch) that succeeds leaves every other
\* record as it was and, on the record with that id, keeps id, patientId and
\* doctorId and every field the patch does not hold; and no step of any
\* operation changes the patientId or the doctorId of a stored appointment.
UpdateFrame ==
  /\ [](\A p \in Procs : \A id \in Ids : \A updates \in TextPatches :
          ~ENABLED (/\ Update(p, id, updates)
                    /\ req'[p].result = "ok"
                    /\ ~(/\ Len(appts') = Len(appts)
                         /\ \A j \in Ids \ {id} : appts'[j] = appts[j]
                         /\ appts'[id].id = appts[id].id
                         /\ appts'[id].patientId = appts[id].patientId
                         /\ appts'[id].doctorId = appts[id].doctorId
                         /\ updates.startTime = UndefTime
                            => appts'[id].startTime = appts[id].startTime
                         /\ updates.endTime = UndefTime
                            => appts'[id].endTime = appts[id].endTime
                         /\ updates.reason = UNDEF
                            => appts'[id].reason = appts[id].reason
                         /\ updates.notes = UNDEF
                            => appts'[id].notes = appts[id].notes
                         /\ updates.status = UNDEF
                            => appts'[id].status = appts[id].status
                         /\ req'[p].doc = appts'[id])))
  /\ [][\A i \in Ids : /\ appts'[i].patientId = appts[i].patientId
                        /\ appts'[i].doctorId = appts[i].doctorId]_vars

\* An update has answered with an appointment that holds the reason of the
\* patch, the notes of its creation and the status a cancel gave it.
UpdateFrameWitness ==
  \E p \in Procs :
    /\ req[p].op = "update" /\ req[p].result = "ok"
    /\ req[p].doc.reason = "cough"
    /\ req[p].doc.notes = "fasting"
    /\ req[p].doc.status = "cancelled"
    /\ Len(appts) = 2
    /\ appts[req[p].doc.id] = req[p].doc

\* C28: frame of cancel and complete: in every reachable state,
\* cancelAppointmentService(id) and completeAppointmentService(id) on a stored
\* id write the status of that record and nothing else: its id, patientId,
\* doctorId, startTime, endTime, reason and notes, and every other record,
\* are as before.
CancelCompleteFrame ==
  \A p \in Procs : \A id \in Ids :
    ~ENABLED (/\ Cancel(p, id) \/ Complete(p, id)
              /\ ~(/\ Len(appts') = Len(appts)
                   /\ \A j \in Ids \ {id} : appts'[j] = appts[j]
                   /\ \A f \in {"id", "patientId", "doctorId", "startTime",
                                 "endTime", "reason", "notes"} :
                        appts'[id][f] = appts[id][f]
                   /\ appts'[id].status = (IF req'[p].op = "cancel"
                                           THEN "cancelled" ELSE "completed")))

\* A cancel has answered with an appointment that still holds its reason and
\* its notes, beside another appointment.
CancelFrameWitness ==
  \E p \in Procs :
    /\ req[p].op = "cancel" /\ req[p].result = "ok"
    /\ req[p].doc.status = "cancelled"
    /\ req[p].doc.reason = "flu" /\ req[p].doc.notes = "fasting"
    /\ Len(appts) = 2
    /\ appts[req[p].doc.id] = req[p].doc

\* C29: sequential sufficiency of the pre-check: when every create runs its
\* conflict query and its insert with no other operation between them and
\* the only other operations are cancel and complete, then in every
\* reachable state no two non-cancelled appointments of one doctor
\* intersect.
SequentialNoOverlap ==
  \A i \in Ids : \A j \in Ids \ {i} :
    (appts[i].doctorId = appts[j].doctorId
     /\ "cancelled" \notin {appts[i].status, appts[j].status})
    => \/ appts[i].endTime <= appts[j].startTime
       \/ appts[j].endTime <= appts[i].startTime

====
